---- MODULE Spec2Model ----
(***************************************************************************)
(* A model of server.py (class WebSocketServer): the HTTP upgrade          *)
(* handshake, the frame codec (receive_frame / send_frame) and the frame   *)
(* loop (handle_websocket_frames) with its handlers.                       *)
(*                                                                         *)
(* Bytes are the integers 0..255 and byte strings are sequences of them.   *)
(* Text (the handshake request and response) is a TLA+ string.  A Python   *)
(* str obtained by decoding a frame payload is a sequence of code points.  *)
(***************************************************************************)
EXTENDS Integers, Sequences, FiniteSets, TLC

(***************************************************************************)
(* Bounds of the model.                                                    *)
(***************************************************************************)
\* client threads started by start()
NConns == 2
\* calls of receive_frame in one connection's frame loop
MaxFrames == 4

Conns == 1..NConns

(***************************************************************************)
(* Small helpers.                                                          *)
(***************************************************************************)
Min(a, b) == IF a <= b THEN a ELSE b

Drop(s, n) == SubSeq(s, n + 1, Len(s))

Last(s) == s[Len(s)]

RECURSIVE Pow2(_)
Pow2(k) == IF k = 0 THEN 1 ELSE 2 * Pow2(k - 1)

Bit(a, k) == (a \div Pow2(k)) % 2

\* Python's a & b, a | b and a ^ b on values below 256
BitAnd(a, b) ==
    LET RECURSIVE go(_)
        go(k) == IF k > 7 THEN 0
                 ELSE Pow2(k) * (Bit(a, k) * Bit(b, k)) + go(k + 1)
    IN go(0)

BitOr(a, b) ==
    LET RECURSIVE go(_)
        go(k) == IF k > 7 THEN 0
                 ELSE Pow2(k) * (IF Bit(a, k) + Bit(b, k) > 0 THEN 1 ELSE 0) + go(k + 1)
    IN go(0)

BitXor(a, b) ==
    LET RECURSIVE go(_)
        go(k) == IF k > 7 THEN 0
                 ELSE Pow2(k) * ((Bit(a, k) + Bit(b, k)) % 2) + go(k + 1)
    IN go(0)

\* struct.unpack(">H" / ">Q" / "!H", b)[0]: the big-endian value of the bytes
RECURSIVE unpack_be(_)
unpack_be(b) ==
    IF b = <<>> THEN 0 ELSE 256 * unpack_be(SubSeq(b, 1, Len(b) - 1)) + Last(b)

\* struct.pack("!H" / "!Q", v): v as n big-endian bytes
RECURSIVE pack_be(_, _)
pack_be(v, n) ==
    IF n = 0 THEN <<>> ELSE Append(pack_be(v \div 256, n - 1), v % 256)

(***************************************************************************)
(* The transport.  socket.recv(n) returns at most n bytes: what has        *)
(* arrived, never more than the transport hands over in one call (lim,     *)
(* at least 1), and b'' once the peer has closed and nothing is left.  It  *)
(* blocks while nothing has arrived and the peer has not closed.           *)
(***************************************************************************)
recv(buf, n, lim) == SubSeq(buf, 1, Min(Min(n, lim), Len(buf)))

WouldBlock(buf, n, eof) == n > 0 /\ buf = <<>> /\ ~eof

\* a recv call that returns everything asked for
Whole == 1000000

(***************************************************************************)
(* unmask_payload (server.py 196-198).  masking_key[i % 4] raises          *)
(* IndexError when the key read was short and the payload reaches past it. *)
(***************************************************************************)
unmask_raises(payload, masking_key) ==
    \E i \in 0..(Len(payload) - 1) : (i % 4) >= Len(masking_key)

unmask_payload(payload, masking_key) ==
    [i \in 1..Len(payload) |-> BitXor(payload[i], masking_key[((i - 1) % 4) + 1])]

(***************************************************************************)
(* receive_frame (server.py 162-194) on the bytes buf of the socket, the   *)
(* peer having closed or not (eof); lims[k] is what the transport hands    *)
(* over in the k-th recv call (header, extended length, masking key,       *)
(* payload).  The result is a frame, an exception, or a blocked read; rest *)
(* is what the calls left in the socket.                                   *)
(***************************************************************************)
NoFrame == [fin |-> FALSE, opcode |-> 0, mask |-> FALSE, payload_length |-> 0,
            payload |-> <<>>]

Raised(rest) == [kind |-> "raise", frame |-> NoFrame, rest |-> rest]

Blocked(rest) == [kind |-> "block", frame |-> NoFrame, rest |-> rest]

receive_payload(b2, eof, lims, fin, opcode, mask, payload_length) ==
    LET masking_key == IF mask THEN recv(b2, 4, lims[3]) ELSE <<>>
        b3 == Drop(b2, Len(masking_key))
        raw == recv(b3, payload_length, lims[4])
        b4 == Drop(b3, Len(raw))
    IN  IF mask /\ WouldBlock(b2, 4, eof) THEN Blocked(b2)
        ELSE IF WouldBlock(b3, payload_length, eof) THEN Blocked(b3)
        ELSE IF mask /\ unmask_raises(raw, masking_key) THEN Raised(b4)
        ELSE [kind |-> "frame",
              frame |-> [fin |-> fin, opcode |-> opcode, mask |-> mask,
                         payload_length |-> payload_length,
                         payload |-> IF mask THEN unmask_payload(raw, masking_key)
                                     ELSE raw],
              rest |-> b4]

receive_frame(buf, eof, lims) ==
    LET header == recv(buf, 2, lims[1])
        b1 == Drop(buf, Len(header))
    IN  IF WouldBlock(buf, 2, eof) THEN Blocked(buf)
        ELSE IF header = <<>> THEN Raised(b1)
        ELSE IF Len(header) < 2 THEN Raised(b1)
        ELSE
          LET fin == BitAnd(header[1], 128) # 0
              opcode == BitAnd(header[1], 15)
              mask == BitAnd(header[2], 128) # 0
              ind == BitAnd(header[2], 127)
              extn == IF ind = 126 THEN 2 ELSE IF ind = 127 THEN 8 ELSE 0
              ext == recv(b1, extn, lims[2])
              b2 == Drop(b1, Len(ext))
          IN  IF WouldBlock(b1, extn, eof) THEN Blocked(b1)
              ELSE IF Len(ext) # extn THEN Raised(b2)
              ELSE receive_payload(b2, eof, lims, fin, opcode, mask,
                                   IF extn = 0 THEN ind ELSE unpack_be(ext))

(***************************************************************************)
(* send_frame (server.py 200-212): the bytes handed to client_socket.send. *)
(***************************************************************************)
\* send_frame with the first threshold of line 204 one too high
send_frame_inline_126(payload, opcode) ==
    LET length == Len(payload)
    IN  <<BitOr(128, opcode)>>
        \o (IF length <= 126 THEN <<length>>
            ELSE IF length <= 65535 THEN <<126>> \o pack_be(length, 2)
            ELSE <<127>> \o pack_be(length, 8))
        \o payload

\* send_frame writing a frame the way a client does: mask bit set, masking
\* key after the length, payload masked
send_frame_masked(payload, opcode) ==
    LET length == Len(payload)
        key == <<1, 2, 3, 4>>
    IN  <<BitOr(128, opcode)>>
        \o (IF length <= 125 THEN <<128 + length>>
            ELSE IF length <= 65535 THEN <<254>> \o pack_be(length, 2)
            ELSE <<255>> \o pack_be(length, 8))
        \o key
        \o [i \in 1..length |-> BitXor(payload[i], key[((i - 1) % 4) + 1])]

\* server.py 200-212
send_frame(payload, opcode) ==
    LET length == Len(payload)
    IN  <<BitOr(128, opcode)>>
        \o (IF length <= 125 THEN <<length>>
            ELSE IF length <= 65535 THEN <<126>> \o pack_be(length, 2)
            ELSE <<127>> \o pack_be(length, 8))
        \o payload

(***************************************************************************)
(* bytes.decode('utf-8') and str.encode('utf-8') (server.py 134, 149, 216, *)
(* 232).  Decoding is strict: a stray continuation byte, a truncated or    *)
(* overlong sequence, a surrogate or a value above U+10FFFF raises.        *)
(***************************************************************************)
IsCont(b) == 128 <= b /\ b <= 191

\* the number of bytes of the well-formed sequence at the head of b, 0 if none
utf8_width(b) ==
    LET b1 == b[1]
        n == Len(b)
    IN  IF b1 <= 127 THEN 1
        ELSE IF 194 <= b1 /\ b1 <= 223
          THEN (IF n >= 2 /\ IsCont(b[2]) THEN 2 ELSE 0)
        ELSE IF 224 <= b1 /\ b1 <= 239
          THEN (IF n >= 3 /\ IsCont(b[2]) /\ IsCont(b[3])
                   /\ (b1 = 224 => b[2] >= 160) /\ (b1 = 237 => b[2] <= 159)
                THEN 3 ELSE 0)
        ELSE IF 240 <= b1 /\ b1 <= 244
          THEN (IF n >= 4 /\ IsCont(b[2]) /\ IsCont(b[3]) /\ IsCont(b[4])
                   /\ (b1 = 240 => b[2] >= 144) /\ (b1 = 244 => b[2] <= 143)
                THEN 4 ELSE 0)
        ELSE 0

utf8_point(b, w) ==
    IF w = 1 THEN b[1]
    ELSE IF w = 2 THEN (b[1] - 192) * 64 + (b[2] - 128)
    ELSE IF w = 3 THEN (b[1] - 224) * 4096 + (b[2] - 128) * 64 + (b[3] - 128)
    ELSE (b[1] - 240) * 262144 + (b[2] - 128) * 4096 + (b[3] - 128) * 64 + (b[4] - 128)

RECURSIVE utf8_valid(_)
utf8_valid(b) ==
    IF b = <<>> THEN TRUE
    ELSE LET w == utf8_width(b)
         IN  w > 0 /\ utf8_valid(Drop(b, w))

\* the code points of a byte string that utf8_valid accepts
RECURSIVE utf8_decode(_)
utf8_decode(b) ==
    IF b = <<>> THEN <<>>
    ELSE LET w == utf8_width(b)
         IN  <<utf8_point(b, w)>> \o utf8_decode(Drop(b, w))

utf8_encode_point(cp) ==
    IF cp < 128 THEN <<cp>>
    ELSE IF cp < 2048 THEN <<192 + (cp \div 64), 128 + (cp % 64)>>
    ELSE IF cp < 65536
      THEN <<224 + (cp \div 4096), 128 + ((cp \div 64) % 64), 128 + (cp % 64)>>
    ELSE <<240 + (cp \div 262144), 128 + ((cp \div 4096) % 64),
           128 + ((cp \div 64) % 64), 128 + (cp % 64)>>

RECURSIVE utf8_encode(_)
utf8_encode(s) ==
    IF s = <<>> THEN <<>> ELSE utf8_encode_point(s[1]) \o utf8_encode(Tail(s))

(***************************************************************************)
(* The frames the server builds (server.py 214-233).                       *)
(***************************************************************************)
send_text_frame(message) == send_frame(utf8_encode(message), 1)

send_binary_frame(data) == send_frame(data, 2)

send_pong_frame(data) == send_frame(data, 10)

send_close_frame(code, reason) == send_frame(pack_be(code, 2) \o utf8_encode(reason), 8)

\* the str "Protocol error" (server.py 113)
ProtocolErrorReason == <<80, 114, 111, 116, 111, 99, 111, 108, 32, 101, 114, 114, 111, 114>>

ProtocolErrorClose == send_close_frame(1002, ProtocolErrorReason)

(***************************************************************************)
(* Text operations of the handshake (server.py 43-66) on strings.          *)
(***************************************************************************)
\* the index of the first occurrence of needle in s, 0 if there is none
find(s, needle) ==
    LET hits == {i \in 1..(Len(s) - Len(needle) + 1) :
                     SubSeq(s, i, i + Len(needle) - 1) = needle}
    IN  IF hits = {} THEN 0 ELSE CHOOSE i \in hits : \A j \in hits : i <= j

\* needle in s
Contains(s, needle) == find(s, needle) > 0

\* re.search(prefix + '(.*)', s): <<>> for None, else <<group(1)>>; '.' stops
\* at a line feed
re_search(prefix, s) ==
    LET i == find(s, prefix)
        after == Drop(s, i + Len(prefix) - 1)
        nl == find(after, "\n")
    IN  IF i = 0 THEN <<>>
        ELSE <<IF nl = 0 THEN after ELSE SubSeq(after, 1, nl - 1)>>

IsSpace(ch) == ch \in {" ", "\t", "\n", "\r", "\f"}

RECURSIVE lstrip(_)
lstrip(s) == IF Len(s) > 0 /\ IsSpace(SubSeq(s, 1, 1)) THEN lstrip(Drop(s, 1)) ELSE s

RECURSIVE rstrip(_)
rstrip(s) ==
    IF Len(s) > 0 /\ IsSpace(SubSeq(s, Len(s), Len(s)))
    THEN rstrip(SubSeq(s, 1, Len(s) - 1)) ELSE s

\* str.strip()
strip(s) == lstrip(rstrip(s))

\* s.split(',')
RECURSIVE split(_, _)
split(s, sep) ==
    LET i == find(s, sep)
    IN  IF i = 0 THEN <<s>>
        ELSE <<SubSeq(s, 1, i - 1)>> \o split(Drop(s, i + Len(sep) - 1), sep)

\* sep.join(items)
RECURSIVE join(_, _)
join(sep, items) ==
    IF items = <<>> THEN ""
    ELSE IF Len(items) = 1 THEN items[1]
    ELSE items[1] \o sep \o join(sep, Tail(items))

\* [x.strip() for x in value.split(',')]  (server.py 61, 65)
split_list(value) ==
    LET parts == split(value, ",")
    IN  [i \in 1..Len(parts) |-> strip(parts[i])]

\* generate_accept_key (server.py 75-80): base64(sha1(key + GUID)), kept as
\* an uninterpreted one-to-one function of the key
generate_accept_key(key) == "b64(sha1(" \o key \o "258EAFA5-E914-47DA-95CA-C5AB0DC85B11))"

\* str.lower() on ASCII text
lower(s) ==
    LET RECURSIVE go(_, _)
        go(lo, hi) ==
            IF lo > hi THEN ""
            ELSE IF lo = hi
            THEN LET ch == SubSeq(s, lo, lo)
                     n == find("ABCDEFGHIJKLMNOPQRSTUVWXYZ", ch)
                 IN  IF n = 0 THEN ch
                     ELSE SubSeq("abcdefghijklmnopqrstuvwxyz", n, n)
            ELSE LET mid == (lo + hi) \div 2
                 IN  go(lo, mid) \o go(mid + 1, hi)
    IN  go(1, Len(s))

\* the upgrade test with "or" for "and"
is_upgrade_either(data) ==
    Contains(data, "Upgrade: websocket") \/ Contains(data, "Connection: Upgrade")

\* the upgrade test on the lowered request
is_upgrade_anycase(data) ==
    /\ Contains(lower(data), "upgrade: websocket")
    /\ Contains(lower(data), "connection: upgrade")

\* the upgrade test of server.py 45
is_upgrade(data) ==
    Contains(data, "Upgrade: websocket") /\ Contains(data, "Connection: Upgrade")

\* server.py 53-58
response_head(key) ==
    "HTTP/1.1 101 Switching Protocols\r\n"
    \o "Upgrade: websocket\r\n"
    \o "Connection: Upgrade\r\n"
    \o "Sec-WebSocket-Accept: " \o generate_accept_key(key) \o "\r\n"

(***************************************************************************)
(* The state.  One thread runs handle_client per accepted connection c;    *)
(* extensions and subprotocols are attributes of the one server object     *)
(* (self), every other variable belongs to a connection or to its thread.  *)
(***************************************************************************)
VARIABLES
    pc,                 \* where connection c's thread is
    request,            \* what recv(1024) returned to c's handshake
    data,               \* handshake local: the decoded request
    response,           \* handshake local: the response being built
    extensions,         \* self.extensions
    subprotocols,       \* self.subprotocols
    wfail,              \* client_socket.send raises on c
    fragmented_message, \* frame-loop local
    fragmented_opcode,  \* frame-loop local
    reads,              \* the calls of receive_frame on c that have ended
    rcvd,               \* the frames receive_frame returned on c: rcvd[c][k]
                        \* is the frame of the k-th iteration of the loop
    delivered,          \* the calls of handle_complete_message on c, in order
    out,                \* the calls of client_socket.send on c, in order
    peer,               \* c's peer: "open"; "cut", closed with part of a frame
                        \* still to be read; "gone", closed and all read
    codec               \* a frame put through send_frame and receive_frame

vars == <<pc, request, data, response, extensions, subprotocols, wfail,
          fragmented_message, fragmented_opcode, reads, rcvd, delivered, out, peer,
          codec>>

hs_vars == <<request, data, response, extensions, subprotocols>>

loop_vars == <<fragmented_message, fragmented_opcode, reads, rcvd, delivered>>

\* Python's None as the value of fragmented_opcode
None == 0 - 1

NoRequest == [text |-> "", decodes |-> TRUE]

CodecOff == [pc |-> "off", fin |-> FALSE, opcode |-> 0, payload |-> <<>>,
             wire |-> <<>>, frame |-> [kind |-> "none", frame |-> NoFrame]]

\* __init__ (server.py 10-17); no connection accepted yet
ServerInit ==
    /\ pc = [c \in Conns |-> "idle"]
    /\ request = [c \in Conns |-> NoRequest]
    /\ data = [c \in Conns |-> ""]
    /\ response = [c \in Conns |-> ""]
    /\ extensions = <<>>
    /\ subprotocols = <<>>
    /\ wfail = [c \in Conns |-> FALSE]
    /\ fragmented_message = [c \in Conns |-> <<>>]
    /\ fragmented_opcode = [c \in Conns |-> None]
    /\ reads = [c \in Conns |-> 0]
    /\ rcvd = [c \in Conns |-> <<>>]
    /\ delivered = [c \in Conns |-> <<>>]
    /\ out = [c \in Conns |-> <<>>]
    /\ peer = [c \in Conns |-> "open"]

Init == ServerInit /\ codec = CodecOff

\* one call of client_socket.send: what was passed, whether it returned, and
\* the iteration of the frame loop that made it (0: the handshake)
SendText(c, text) == [at |-> 0, text |-> text, bytes |-> <<>>, ok |-> ~wfail[c]]

SendBytes(c, bytes) ==
    [at |-> reads[c] + 1, text |-> "", bytes |-> bytes, ok |-> ~wfail[c]]

(***************************************************************************)
(* start (server.py 25-29): accept a connection, start its thread.         *)
(***************************************************************************)
accept(c) ==
    /\ pc[c] = "idle"
    /\ pc' = [pc EXCEPT ![c] = "hs_recv"]
    /\ UNCHANGED <<codec, peer, hs_vars, loop_vars, wfail, out>>

(***************************************************************************)
(* handshake (server.py 41-73), one action per access to self.             *)
(***************************************************************************)
ExtHeader == "Sec-WebSocket-Extensions: "

SubHeader == "Sec-WebSocket-Protocol: "

after_ext(d) == IF re_search(SubHeader, d) # <<>> THEN "hs_sub_store" ELSE "hs_send"

after_head(d) == IF re_search(ExtHeader, d) # <<>> THEN "hs_ext_store" ELSE after_ext(d)

\* lines 43-58, and 72-73: read and decode the request, test it, find the key
\* and start the response; any exception ends in handle_client's finally
hs_recv(c, R) ==
    /\ pc[c] = "hs_recv"
    /\ \E req \in R :
         LET d == recv(req.text, 1024, Whole)
             key == re_search("Sec-WebSocket-Key: ", d)
             good == req.decodes /\ is_upgrade(d) /\ key # <<>>
         IN  /\ request' = [request EXCEPT ![c] = req]
             /\ data' = [data EXCEPT ![c] = IF req.decodes THEN d ELSE ""]
             /\ response' = [response EXCEPT ![c] =
                                IF good THEN response_head(strip(key[1])) ELSE ""]
             /\ pc' = [pc EXCEPT ![c] = IF good THEN after_head(d) ELSE "finally"]
    /\ UNCHANGED <<codec, peer, extensions, subprotocols, loop_vars, wfail, out>>

\* line 61
hs_ext_store(c) ==
    /\ pc[c] = "hs_ext_store"
    /\ extensions' = split_list(re_search(ExtHeader, data[c])[1])
    /\ pc' = [pc EXCEPT ![c] = "hs_ext_load"]
    /\ UNCHANGED <<codec, peer, request, data, response, subprotocols, loop_vars, wfail, out>>

\* line 62
hs_ext_load(c) ==
    /\ pc[c] = "hs_ext_load"
    /\ response' = [response EXCEPT ![c] =
                       @ \o ExtHeader \o join(", ", extensions) \o "\r\n"]
    /\ pc' = [pc EXCEPT ![c] = after_ext(data[c])]
    /\ UNCHANGED <<codec, peer, request, data, extensions, subprotocols, loop_vars, wfail, out>>

\* line 65
hs_sub_store(c) ==
    /\ pc[c] = "hs_sub_store"
    /\ subprotocols' = split_list(re_search(SubHeader, data[c])[1])
    /\ pc' = [pc EXCEPT ![c] = "hs_sub_load"]
    /\ UNCHANGED <<codec, peer, request, data, response, extensions, loop_vars, wfail, out>>

\* line 66
hs_sub_load(c) ==
    /\ pc[c] = "hs_sub_load"
    /\ response' = [response EXCEPT ![c] = @ \o SubHeader \o subprotocols[1] \o "\r\n"]
    /\ pc' = [pc EXCEPT ![c] = "hs_send"]
    /\ UNCHANGED <<codec, peer, request, data, extensions, subprotocols, loop_vars, wfail, out>>

\* lines 68-71
hs_send(c) ==
    /\ pc[c] = "hs_send"
    /\ response' = [response EXCEPT ![c] = @ \o "\r\n"]
    /\ out' = [out EXCEPT ![c] = Append(@, SendText(c, response'[c]))]
    /\ pc' = [pc EXCEPT ![c] = IF wfail[c] THEN "finally" ELSE "frames"]
    /\ UNCHANGED <<codec, peer, request, data, extensions, subprotocols, loop_vars, wfail>>

(***************************************************************************)
(* handle_client's finally (server.py 38-39).                              *)
(***************************************************************************)
\* handle_client without its finally: the thread ends, the socket stays open
client_close_never(c) ==
    /\ pc[c] = "finally"
    /\ UNCHANGED vars

\* server.py 38-39
client_close(c) ==
    /\ pc[c] = "finally"
    /\ pc' = [pc EXCEPT ![c] = "closed"]
    /\ UNCHANGED <<codec, peer, hs_vars, loop_vars, wfail, out>>

(***************************************************************************)
(* The transport stops taking writes (the peer reset the connection).      *)
(***************************************************************************)
transport_fails(c) ==
    /\ pc[c] \notin {"idle", "closed"}
    /\ ~wfail[c]
    /\ wfail' = [wfail EXCEPT ![c] = TRUE]
    /\ UNCHANGED <<codec, peer, pc, hs_vars, loop_vars, out>>

(***************************************************************************)
(* The handlers of the frame loop.  Each returns what its call does: raise *)
(* (an exception leaves it before any send), sends (the frames it passes   *)
(* to client_socket.send), delivers (its calls of handle_complete_message) *)
(* and, for the continuation handler, the bytearray it extends in place.   *)
(***************************************************************************)
Quiet == [raise |-> FALSE, sends |-> <<>>]

Raises == [raise |-> TRUE, sends |-> <<>>]

Sends(bytes) == [raise |-> FALSE, sends |-> <<bytes>>]

\* handle_complete_message echoing a Text payload as it came, undecoded
handle_complete_message_lenient(opcode, payload) ==
    IF opcode = 1 THEN Sends(send_frame(payload, 1))
    ELSE IF opcode = 2 THEN Sends(send_binary_frame(payload))
    ELSE Quiet

\* server.py 131-141
handle_complete_message(opcode, payload) ==
    IF opcode = 1
    THEN (IF utf8_valid(payload) THEN Sends(send_text_frame(utf8_decode(payload)))
          ELSE Raises)
    ELSE IF opcode = 2 THEN Sends(send_binary_frame(payload))
    ELSE Quiet

\* one call of handle_complete_message
Message(opcode, payload) == [opcode |-> opcode, payload |-> payload]

\* handle_continuation_frame putting the new payload in front of the buffer
handle_continuation_frame_prepends(frame, message, opcode) ==
    IF opcode = None
    THEN [raise |-> TRUE, sends |-> <<>>, delivers |-> <<>>, message |-> message]
    ELSE LET extended == frame.payload \o message
             h == handle_complete_message(opcode, extended)
         IN  IF frame.fin
             THEN [raise |-> h.raise, sends |-> h.sends,
                   delivers |-> <<Message(opcode, extended)>>, message |-> extended]
             ELSE [raise |-> FALSE, sends |-> <<>>, delivers |-> <<>>,
                   message |-> extended]

\* handle_continuation_frame without the test of lines 118-119
handle_continuation_frame_unchecked(frame, message, opcode) ==
    LET extended == message \o frame.payload
        h == handle_complete_message(opcode, extended)
    IN  IF frame.fin
        THEN [raise |-> h.raise, sends |-> h.sends,
              delivers |-> <<Message(opcode, extended)>>, message |-> extended]
        ELSE [raise |-> FALSE, sends |-> <<>>, delivers |-> <<>>,
              message |-> extended]

\* server.py 116-122
handle_continuation_frame(frame, message, opcode) ==
    IF opcode = None
    THEN [raise |-> TRUE, sends |-> <<>>, delivers |-> <<>>, message |-> message]
    ELSE LET extended == message \o frame.payload
             h == handle_complete_message(opcode, extended)
         IN  IF frame.fin
             THEN [raise |-> h.raise, sends |-> h.sends,
                   delivers |-> <<Message(opcode, extended)>>, message |-> extended]
             ELSE [raise |-> FALSE, sends |-> <<>>, delivers |-> <<>>,
                   message |-> extended]

\* handle_data_frame without the test of lines 126-127
handle_data_frame_unchecked(frame, message, opcode) ==
    LET h == handle_complete_message(frame.opcode, frame.payload)
    IN  IF frame.fin
        THEN [raise |-> h.raise, sends |-> h.sends,
              delivers |-> <<Message(frame.opcode, frame.payload)>>]
        ELSE [raise |-> FALSE, sends |-> <<>>, delivers |-> <<>>]

\* server.py 124-129
handle_data_frame(frame, message, opcode) ==
    IF opcode # None
    THEN [raise |-> TRUE, sends |-> <<>>, delivers |-> <<>>]
    ELSE LET h == handle_complete_message(frame.opcode, frame.payload)
         IN  IF frame.fin
             THEN [raise |-> h.raise, sends |-> h.sends,
                   delivers |-> <<Message(frame.opcode, frame.payload)>>]
             ELSE [raise |-> FALSE, sends |-> <<>>, delivers |-> <<>>]

\* handle_close_frame answering with the defaults of lines 145-146
handle_close_frame_default(frame) == Sends(send_close_frame(1000, <<>>))

\* server.py 143-151
handle_close_frame(frame) ==
    IF Len(frame.payload) >= 2
    THEN (IF utf8_valid(Drop(frame.payload, 2))
          THEN Sends(send_close_frame(unpack_be(SubSeq(frame.payload, 1, 2)),
                                      utf8_decode(Drop(frame.payload, 2))))
          ELSE Raises)
    ELSE Sends(send_close_frame(1000, <<>>))

\* handle_ping_frame answering with the default payload of send_pong_frame
handle_ping_frame_empty(frame) == Sends(send_pong_frame(<<>>))

\* server.py 153-156
handle_ping_frame(frame) == Sends(send_pong_frame(frame.payload))

\* handle_pong_frame answering a Pong with a Pong
handle_pong_frame_replies(frame) == Sends(send_pong_frame(frame.payload))

\* server.py 158-160
handle_pong_frame(frame) == Quiet

(***************************************************************************)
(* One iteration of the loop of handle_websocket_frames (server.py 87-114).*)
(* r is what the iteration's call of receive_frame comes back with: a      *)
(* frame or an exception.                                                  *)
(***************************************************************************)
\* the loop is at line 89; the frames read from a peer that stays open are
\* counted up to MaxFrames
CanRead(c) == pc[c] = "frames" /\ (reads[c] < MaxFrames \/ peer[c] # "open")

\* line 89
Read(c, r) ==
    /\ reads' = [reads EXCEPT ![c] = @ + 1]
    /\ rcvd' = [rcvd EXCEPT ![c] = IF r.kind = "frame" THEN Append(@, r.frame) ELSE @]
    /\ peer' = [peer EXCEPT ![c] = IF @ = "cut" THEN "gone" ELSE @]

\* whether the try body raises: by itself, or in a send the socket refuses
Failed(c, t) == t.raise \/ (t.sends # <<>> /\ wfail[c])

\* Iterate with its frames put in front of those sent before
Iterate_lifo(c, t, delivers, brk) ==
    LET tried == [i \in 1..Len(t.sends) |-> SendBytes(c, t.sends[i])]
        closing == IF Failed(c, t) THEN <<SendBytes(c, ProtocolErrorClose)>> ELSE <<>>
    IN  /\ out' = [out EXCEPT ![c] = tried \o closing \o @]
        /\ delivered' = [delivered EXCEPT ![c] =
               @ \o [i \in 1..Len(delivers) |->
                        [at |-> reads[c] + 1, opcode |-> delivers[i].opcode,
                         payload |-> delivers[i].payload]]]
        /\ pc' = [pc EXCEPT ![c] = IF Failed(c, t) \/ brk THEN "finally" ELSE "frames"]

\* Iterate with an exception of the try body ending every thread of the
\* process, not the one it was raised in
Iterate_crashes(c, t, delivers, brk) ==
    LET tried == [i \in 1..Len(t.sends) |-> SendBytes(c, t.sends[i])]
        closing == IF Failed(c, t) THEN <<SendBytes(c, ProtocolErrorClose)>> ELSE <<>>
    IN  /\ out' = [out EXCEPT ![c] = @ \o tried \o closing]
        /\ delivered' = [delivered EXCEPT ![c] =
               @ \o [i \in 1..Len(delivers) |->
                        [at |-> reads[c] + 1, opcode |-> delivers[i].opcode,
                         payload |-> delivers[i].payload]]]
        /\ pc' = IF Failed(c, t) THEN [d \in Conns |-> "finally"]
                 ELSE [pc EXCEPT ![c] = IF brk THEN "finally" ELSE "frames"]

\* the try body did t (raise, sends) and made the calls delivers of
\* handle_complete_message; an exception in it runs lines 111-114: a 1002
\* Close is sent and the loop ends (by break, or by the exception of that
\* send).  Otherwise the loop ends if the branch breaks (brk), and goes on
\* if not.
Iterate(c, t, delivers, brk) ==
    LET tried == [i \in 1..Len(t.sends) |-> SendBytes(c, t.sends[i])]
        closing == IF Failed(c, t) THEN <<SendBytes(c, ProtocolErrorClose)>> ELSE <<>>
    IN  /\ out' = [out EXCEPT ![c] = @ \o tried \o closing]
        /\ delivered' = [delivered EXCEPT ![c] =
               @ \o [i \in 1..Len(delivers) |->
                        [at |-> reads[c] + 1, opcode |-> delivers[i].opcode,
                         payload |-> delivers[i].payload]]]
        /\ pc' = [pc EXCEPT ![c] = IF Failed(c, t) \/ brk THEN "finally" ELSE "frames"]

\* lines 91-95
continuation_frame(c, R) ==
    /\ CanRead(c)
    /\ \E r \in R :
         LET t == handle_continuation_frame(r.frame, fragmented_message[c],
                                            fragmented_opcode[c])
         IN  /\ r.kind = "frame" /\ r.frame.opcode = 0
             /\ Read(c, r)
             /\ Iterate(c, t, t.delivers, FALSE)
             /\ fragmented_message' = [fragmented_message EXCEPT ![c] =
                    IF ~Failed(c, t) /\ r.frame.fin THEN <<>> ELSE t.message]
             /\ fragmented_opcode' = [fragmented_opcode EXCEPT ![c] =
                    IF ~Failed(c, t) /\ r.frame.fin THEN None ELSE @]
    /\ UNCHANGED <<codec, hs_vars, wfail>>

\* lines 96-100
data_frame(c, R) ==
    /\ CanRead(c)
    /\ \E r \in R :
         LET t == handle_data_frame(r.frame, fragmented_message[c], fragmented_opcode[c])
         IN  /\ r.kind = "frame" /\ r.frame.opcode \in {1, 2}
             /\ Read(c, r)
             /\ Iterate(c, t, t.delivers, FALSE)
             /\ fragmented_message' = [fragmented_message EXCEPT ![c] =
                    IF ~Failed(c, t) /\ ~r.frame.fin THEN r.frame.payload ELSE @]
             /\ fragmented_opcode' = [fragmented_opcode EXCEPT ![c] =
                    IF ~Failed(c, t) /\ ~r.frame.fin THEN r.frame.opcode ELSE @]
    /\ UNCHANGED <<codec, hs_vars, wfail>>

\* the Close branch without the break of line 103
close_frame_continues(c, R) ==
    /\ CanRead(c)
    /\ \E r \in R :
         /\ r.kind = "frame" /\ r.frame.opcode = 8
         /\ Read(c, r)
         /\ Iterate(c, handle_close_frame(r.frame), <<>>, FALSE)
    /\ UNCHANGED <<codec, hs_vars, wfail, fragmented_message, fragmented_opcode>>

\* lines 101-103
close_frame(c, R) ==
    /\ CanRead(c)
    /\ \E r \in R :
         /\ r.kind = "frame" /\ r.frame.opcode = 8
         /\ Read(c, r)
         /\ Iterate(c, handle_close_frame(r.frame), <<>>, TRUE)
    /\ UNCHANGED <<codec, hs_vars, wfail, fragmented_message, fragmented_opcode>>

\* lines 104-105
ping_frame(c, R) ==
    /\ CanRead(c)
    /\ \E r \in R :
         /\ r.kind = "frame" /\ r.frame.opcode = 9
         /\ Read(c, r)
         /\ Iterate(c, handle_ping_frame(r.frame), <<>>, FALSE)
    /\ UNCHANGED <<codec, hs_vars, wfail, fragmented_message, fragmented_opcode>>

\* lines 106-107
pong_frame(c, R) ==
    /\ CanRead(c)
    /\ \E r \in R :
         /\ r.kind = "frame" /\ r.frame.opcode = 10
         /\ Read(c, r)
         /\ Iterate(c, handle_pong_frame(r.frame), <<>>, FALSE)
    /\ UNCHANGED <<codec, hs_vars, wfail, fragmented_message, fragmented_opcode>>

\* the dispatch without its else branch: an unknown opcode is passed over
unsupported_frame_ignored(c, R) ==
    /\ CanRead(c)
    /\ \E r \in R :
         /\ r.kind = "frame" /\ r.frame.opcode \notin {0, 1, 2, 8, 9, 10}
         /\ Read(c, r)
         /\ Iterate(c, Quiet, <<>>, FALSE)
    /\ UNCHANGED <<codec, hs_vars, wfail, fragmented_message, fragmented_opcode>>

\* lines 108-109
unsupported_frame(c, R) ==
    /\ CanRead(c)
    /\ \E r \in R :
         /\ r.kind = "frame" /\ r.frame.opcode \notin {0, 1, 2, 8, 9, 10}
         /\ Read(c, r)
         /\ Iterate(c, Raises, <<>>, FALSE)
    /\ UNCHANGED <<codec, hs_vars, wfail, fragmented_message, fragmented_opcode>>

\* line 89 raises: receive_frame found the peer gone, or read too little to
\* take the header, the length or the payload apart
receive_raises(c, R) ==
    /\ CanRead(c)
    /\ \E r \in R :
         /\ r.kind = "raise"
         /\ Read(c, r)
         /\ Iterate(c, Raises, <<>>, FALSE)
    /\ UNCHANGED <<codec, hs_vars, wfail, fragmented_message, fragmented_opcode>>

(***************************************************************************)
(* The peer.  A client frame on the wire (RFC 6455 5.2, the layout that    *)
(* receive_frame takes apart), masked with key unless key is empty.        *)
(***************************************************************************)
client_frame(fin, opcode, payload, key) ==
    <<(IF fin THEN 128 ELSE 0) + opcode,
      (IF key = <<>> THEN 0 ELSE 128) + Len(payload)>>
    \o key
    \o (IF key = <<>> THEN payload
        ELSE [i \in 1..Len(payload) |-> BitXor(payload[i], key[((i - 1) % 4) + 1])])

ClientKey == <<1, 2, 3, 4>>

Full == <<Whole, Whole, Whole, Whole>>

Arrives(w) == [w |-> w, close |-> FALSE, lims |-> Full]

\* payloads: "A", and the two bytes of U+00E9 apart
DataPayloads == {<<65>>, <<195>>, <<169>>}

\* payloads of Close: none, one byte, code 1001, code 1000 with reason "A",
\* code 1000 with a reason that is not UTF-8
ClosePayloads == {<<>>, <<3>>, <<3, 233>>, <<3, 232, 65>>, <<3, 232, 195>>}

WholeFrames ==
    {Arrives(client_frame(fin, op, p, ClientKey)) :
        fin \in BOOLEAN, op \in {0, 1, 2}, p \in DataPayloads}
    \cup {Arrives(client_frame(TRUE, 8, p, ClientKey)) : p \in ClosePayloads}
    \cup {Arrives(client_frame(TRUE, op, <<65>>, ClientKey)) : op \in {9, 10}}
    \cup {Arrives(client_frame(TRUE, op, <<>>, ClientKey)) : op \in {3, 11}}
    \cup {Arrives(client_frame(FALSE, 9, <<>>, <<>>))}

\* a Binary frame of two bytes whose header, masking key or payload the
\* transport hands over in part
SplitFrames ==
    {[w |-> client_frame(TRUE, 2, <<65, 66>>, ClientKey), close |-> FALSE, lims |-> l] :
        l \in {<<1, Whole, Whole, Whole>>, <<Whole, Whole, 2, Whole>>,
               <<Whole, Whole, Whole, 1>>}}

\* the peer closes, at once or part-way through a frame
PeerCloses == [w |-> <<>>, close |-> TRUE, lims |-> Full]

Endings ==
    {PeerCloses,
     [w |-> SubSeq(client_frame(TRUE, 1, <<65>>, ClientKey), 1, 4), close |-> TRUE,
      lims |-> Full]}

Arrivals == WholeFrames \cup SplitFrames \cup Endings

\* what a call of receive_frame comes back with
Returned(a) ==
    LET r == receive_frame(a.w, a.close, a.lims)
    IN  [kind |-> r.kind, frame |-> r.frame]

Results == {Returned(a) : a \in Arrivals}

PeerClosed == Returned(PeerCloses)

(***************************************************************************)
(* The requests recv(1024) returns to the handshake.                       *)
(***************************************************************************)
RequestLine == "GET /chat HTTP/1.1\r\n"

Text(t) == [text |-> t, decodes |-> TRUE]

UpgradeRequest(upgrade, connection, rest) ==
    Text(RequestLine \o upgrade \o connection \o rest \o "\r\n")

GoodRequests ==
    {UpgradeRequest("Upgrade: websocket\r\n", "Connection: Upgrade\r\n", rest) :
        rest \in {"Sec-WebSocket-Key: k1\r\n",
                  "Sec-WebSocket-Key: k2\r\nSec-WebSocket-Extensions: x1, x2\r\n"
                      \o "Sec-WebSocket-Protocol: chat , superchat\r\n",
                  "Sec-WebSocket-Key: k3\r\nSec-WebSocket-Extensions: y\r\n"
                      \o "Sec-WebSocket-Protocol: mqtt\r\n"}}

\* the same request with the letter case of one header line changed, or
\* with one of the two lines left out
CaseRequests ==
    {UpgradeRequest(u, c, "Sec-WebSocket-Key: k1\r\n") :
        u \in {"Upgrade: websocket\r\n", "upgrade: WebSocket\r\n",
                "Upgrade: WebSocket\r\n", "UPGRADE: WEBSOCKET\r\n", ""},
        c \in {"Connection: Upgrade\r\n", "Connection: upgrade\r\n",
                "connection: Upgrade\r\n", "Connection: keep-alive, Upgrade\r\n", ""}}

BadRequests ==
    {UpgradeRequest("Upgrade: websocket\r\n", "Connection: Upgrade\r\n", ""),
     Text("GET / HTTP/1.1\r\n\r\n"),
     Text(""),
     [text |-> "", decodes |-> FALSE]}

Requests == GoodRequests \cup CaseRequests \cup BadRequests

\* the requests of the one connection of Spec
SpecRequests ==
    {r \in GoodRequests : Contains(r.text, "superchat")} \cup BadRequests

(***************************************************************************)
(* Spec: the whole life of one connection, from accept to close.           *)
(***************************************************************************)
Served(c) ==
    \/ accept(c)
    \/ hs_recv(c, SpecRequests)
    \/ hs_ext_store(c)
    \/ hs_ext_load(c)
    \/ hs_sub_store(c)
    \/ hs_sub_load(c)
    \/ hs_send(c)
    \/ continuation_frame(c, Results)
    \/ data_frame(c, Results)
    \/ close_frame(c, Results)
    \/ ping_frame(c, Results)
    \/ pong_frame(c, Results)
    \/ unsupported_frame(c, Results)
    \/ receive_raises(c, Results)
    \/ client_close(c)
    \/ transport_fails(c)

Next == \E c \in {1} : Served(c)

Spec == Init /\ [][Next]_vars

(***************************************************************************)
(* HsSpec: the handshakes of all connections, interleaved at each access   *)
(* to the server object; a connection that gets through its handshake sees *)
(* its peer close.                                                         *)
(***************************************************************************)
\* two requests that offer different extensions and subprotocols, and one
\* that fails
HsRequests ==
    {r \in GoodRequests : Contains(r.text, "Sec-WebSocket-Extensions: ")}
        \cup {r \in BadRequests : r.decodes /\ is_upgrade(r.text)}

HsNext ==
    \E c \in Conns :
        \/ accept(c)
        \/ hs_recv(c, HsRequests)
        \/ hs_ext_store(c)
        \/ hs_ext_load(c)
        \/ hs_sub_store(c)
        \/ hs_sub_load(c)
        \/ hs_send(c)
        \/ receive_raises(c, {PeerClosed})
        \/ client_close(c)
        \/ transport_fails(c)

HsSpec == Init /\ [][HsNext]_vars

(***************************************************************************)
(* UpgradeSpec: the handshake of one connection on every kind of request.  *)
(***************************************************************************)
UpgradeNext ==
    \E c \in {1} :
        \/ accept(c)
        \/ hs_recv(c, Requests)
        \/ hs_ext_store(c)
        \/ hs_ext_load(c)
        \/ hs_sub_store(c)
        \/ hs_sub_load(c)
        \/ hs_send(c)
        \/ receive_raises(c, {PeerClosed})
        \/ client_close(c)
        \/ transport_fails(c)

UpgradeSpec == Init /\ [][UpgradeNext]_vars

(***************************************************************************)
(* CodecSpec: send_frame followed by receive_frame.  A frame to send is    *)
(* chosen (fin, opcode, payload), send_frame puts it on a stream that      *)
(* hands every byte over, and receive_frame takes it off.                  *)
(***************************************************************************)
\* payload lengths on both sides of the two thresholds of the length field
CodecLengths == {0, 1, 125, 126, 127, 65535, 65536}

\* two payloads of each length
CodecPayload(n, k) == [i \in 1..n |-> (i * k) % 256]

CodecInit ==
    /\ ServerInit
    /\ \E fin \in BOOLEAN, opcode \in {0, 1, 2, 8, 9, 10}, n \in CodecLengths, k \in {1, 7} :
         codec = [CodecOff EXCEPT !.pc = "encode", !.fin = fin, !.opcode = opcode,
                                  !.payload = CodecPayload(n, k)]

\* send_frame takes a payload and an opcode, and no fin (server.py 200)
codec_send ==
    /\ codec.pc = "encode"
    /\ codec' = [codec EXCEPT !.pc = "decode",
                              !.wire = send_frame(codec.payload, codec.opcode)]
    /\ UNCHANGED <<pc, peer, hs_vars, loop_vars, wfail, out>>

codec_receive ==
    /\ codec.pc = "decode"
    /\ codec' = [codec EXCEPT !.pc = "done",
                    !.frame = Returned([w |-> codec.wire, close |-> TRUE, lims |-> Full])]
    /\ UNCHANGED <<pc, peer, hs_vars, loop_vars, wfail, out>>

CodecNext == codec_send \/ codec_receive

CodecSpec == CodecInit /\ [][CodecNext]_vars

(***************************************************************************)
(* LiveSpec: one connection whose peer may close the transport at any time *)
(* in the frame loop.  From then on recv returns what is left of the       *)
(* stream and then b'' (server.py 163-166).  The thread of the connection  *)
(* keeps running: a read from a peer that has closed returns, so the       *)
(* iteration it starts is taken in the end, and so is the close of         *)
(* handle_client's finally.  A read from an open peer may wait for ever.   *)
(***************************************************************************)
LiveFrames ==
    {Arrives(client_frame(fin, 0, <<65>>, ClientKey)) : fin \in BOOLEAN}
    \cup {Arrives(client_frame(FALSE, 1, <<65>>, ClientKey)),
          Arrives(client_frame(TRUE, 2, <<65>>, ClientKey)),
          Arrives(client_frame(TRUE, 8, <<>>, ClientKey)),
          Arrives(client_frame(TRUE, 9, <<65>>, ClientKey)),
          Arrives(client_frame(TRUE, 10, <<65>>, ClientKey)),
          Arrives(client_frame(TRUE, 3, <<>>, ClientKey))}

\* the peer closed after the first byte, the first four bytes or all but the
\* last byte of a frame
CutFrames ==
    {[w |-> SubSeq(client_frame(TRUE, 1, <<65, 66>>, ClientKey), 1, n), close |-> TRUE,
      lims |-> Full] : n \in {1, 4, 7}}

\* what the next call of receive_frame on c comes back with
LiveReturns == {Returned(a) : a \in LiveFrames}

CutReturns == {Returned(a) : a \in CutFrames}

LiveResults(c) ==
    IF peer[c] = "open" THEN LiveReturns
    ELSE IF peer[c] = "cut" THEN CutReturns
    ELSE {PeerClosed}

peer_closes(c) ==
    /\ pc[c] = "frames"
    /\ peer[c] = "open"
    /\ \E left \in {"cut", "gone"} : peer' = [peer EXCEPT ![c] = left]
    /\ UNCHANGED <<codec, pc, hs_vars, loop_vars, wfail, out>>

\* line 89 and the branch taken
live_frame(c) ==
    \/ continuation_frame(c, LiveResults(c))
    \/ data_frame(c, LiveResults(c))
    \/ close_frame(c, LiveResults(c))
    \/ ping_frame(c, LiveResults(c))
    \/ pong_frame(c, LiveResults(c))
    \/ unsupported_frame(c, LiveResults(c))
    \/ receive_raises(c, LiveResults(c))

\* an iteration whose read finds the peer closed
live_eof(c) == peer[c] # "open" /\ live_frame(c)

LiveNext ==
    \E c \in {1} :
        \/ accept(c)
        \/ hs_recv(c, GoodRequests)
        \/ hs_ext_store(c)
        \/ hs_ext_load(c)
        \/ hs_sub_store(c)
        \/ hs_sub_load(c)
        \/ hs_send(c)
        \/ live_frame(c)
        \/ client_close(c)
        \/ peer_closes(c)
        \/ transport_fails(c)

LiveSpec ==
    /\ Init /\ [][LiveNext]_vars
    /\ \A c \in {1} : WF_vars(live_eof(c)) /\ WF_vars(client_close(c))

(***************************************************************************)
(* SharedSpec: all connections, each served by its own thread, with the    *)
(* errors a connection can meet: a request that is no handshake, a frame    *)
(* with an unknown opcode, a Continuation frame out of place, a read that   *)
(* fails, a write that fails.                                               *)
(***************************************************************************)
SharedRequests ==
    {UpgradeRequest("Upgrade: websocket\r\n", "Connection: Upgrade\r\n", rest) :
        rest \in {"Sec-WebSocket-Key: k1\r\n", ""}}

SharedReturns ==
    {Returned(Arrives(client_frame(TRUE, 9, <<>>, ClientKey))),
     Returned(Arrives(client_frame(TRUE, 0, <<>>, ClientKey))),
     Returned(Arrives(client_frame(TRUE, 3, <<>>, ClientKey))),
     PeerClosed}

SharedNext ==
    \E c \in Conns :
        \/ accept(c)
        \/ hs_recv(c, SharedRequests)
        \/ hs_send(c)
        \/ continuation_frame(c, SharedReturns)
        \/ ping_frame(c, SharedReturns)
        \/ unsupported_frame(c, SharedReturns)
        \/ receive_raises(c, SharedReturns)
        \/ client_close(c)
        \/ transport_fails(c)

SharedSpec == Init /\ [][SharedNext]_vars

(***************************************************************************)
(* Reading the logs.                                                       *)
(***************************************************************************)
\* the bytes passed to send in iteration k of c's frame loop, call by call
Sent(c, k) ==
    LET calls == SelectSeq(out[c], LAMBDA e : e.at = k)
    IN  [n \in 1..Len(calls) |-> calls[n].bytes]

\* the messages handed to handle_complete_message in iteration k
DeliveredAt(c, k) == SelectSeq(delivered[c], LAMBDA d : d.at = k)

\* the loop of c ended with frame k: nothing was read after it
EndedAt(c, k) ==
    /\ k = Len(rcvd[c])
    /\ reads[c] = k
    /\ pc[c] \in {"finally", "closed"}

\* a Close frame with code 1002 and reason "Protocol error" on the wire
Close1002 == <<136, 16, 3, 234>> \o ProtocolErrorReason

\* frames i..j of log are a fragmentation sequence: a Text or Binary frame
\* with fin clear, Continuation frames with fin clear, and a Continuation
\* frame with fin set, with Ping and Pong frames anywhere between
FragmentSequence(log, i, j) ==
    /\ i < j
    /\ log[i].opcode \in {1, 2} /\ ~log[i].fin
    /\ log[j].opcode = 0 /\ log[j].fin
    /\ \A k \in (i + 1)..(j - 1) :
           \/ log[k].opcode = 0 /\ ~log[k].fin
           \/ log[k].opcode \in {9, 10}

\* the payloads of the data frames among frames i..j of log, in order
RECURSIVE DataBytes(_, _, _)
DataBytes(log, i, j) ==
    IF i > j THEN <<>>
    ELSE (IF log[i].opcode \in {0, 1, 2} THEN log[i].payload ELSE <<>>)
         \o DataBytes(log, i + 1, j)

\* a fragmentation sequence is open when frame k of log arrives
OpenAt(log, k) ==
    \E i \in 1..(k - 1) :
        /\ log[i].opcode \in {1, 2} /\ ~log[i].fin
        /\ \A m \in (i + 1)..(k - 1) : ~(log[m].opcode = 0 /\ log[m].fin)

(***************************************************************************)
(* C1.  For every fragmentation sequence received on a connection, exactly *)
(* one message is handed to handle_complete_message in the course of the   *)
(* sequence: at its last frame, with the opcode of its first frame and, as  *)
(* payload, the payloads of its data frames joined in the order received    *)
(* (Ping and Pong payloads left out).  After the last frame no             *)
(* fragmentation is pending: either the loop has ended, or                  *)
(* fragmented_opcode is None and the buffer is empty.                       *)
(***************************************************************************)
C1_Reassembly ==
    \A c \in Conns : \A i, j \in 1..Len(rcvd[c]) :
        FragmentSequence(rcvd[c], i, j) =>
            /\ \A k \in i..(j - 1) : DeliveredAt(c, k) = <<>>
            /\ DeliveredAt(c, j) =
                   <<[at |-> j, opcode |-> rcvd[c][i].opcode,
                      payload |-> DataBytes(rcvd[c], i, j)]>>
            /\ (j = Len(rcvd[c]) /\ pc[c] = "frames") =>
                   (fragmented_opcode[c] = None /\ fragmented_message[c] = <<>>)

\* a Text message in three fragments with a Ping between them was
\* reassembled and echoed, and the loop goes on
C1_Witness ==
    \E c \in Conns :
        /\ Len(rcvd[c]) = 4 /\ FragmentSequence(rcvd[c], 1, 4)
        /\ \E k \in 2..3 : rcvd[c][k].opcode = 9
        /\ \E k \in 2..3 : rcvd[c][k].opcode = 0
        /\ DeliveredAt(c, 4) = <<[at |-> 4, opcode |-> 1, payload |-> <<195, 169, 65>>]>>
        /\ Sent(c, 4) = <<<<129, 3, 195, 169, 65>>>>
        /\ pc[c] = "frames"

(***************************************************************************)
(* C2.  A Text or Binary frame (fin set or clear) that arrives while a      *)
(* fragmentation sequence is open makes the server send a Close frame with  *)
(* code 1002 and nothing else, hand nothing to handle_complete_message      *)
(* (neither the pending message nor the new payload), and end the loop.     *)
(***************************************************************************)
C2_DataWhilePending ==
    \A c \in Conns : \A k \in 1..Len(rcvd[c]) :
        (rcvd[c][k].opcode \in {1, 2} /\ OpenAt(rcvd[c], k)) =>
            /\ Sent(c, k) = <<Close1002>>
            /\ DeliveredAt(c, k) = <<>>
            /\ EndedAt(c, k)

\* a complete Binary frame arrived after a Text fragment and a Continuation
C2_Witness ==
    \E c \in Conns :
        /\ Len(rcvd[c]) = 3
        /\ rcvd[c][1].opcode = 1 /\ ~rcvd[c][1].fin
        /\ rcvd[c][2].opcode = 0 /\ ~rcvd[c][2].fin
        /\ rcvd[c][3].opcode = 2 /\ rcvd[c][3].fin
        /\ Sent(c, 3) = <<Close1002>>
        /\ delivered[c] = <<>>
        /\ pc[c] = "closed"

(***************************************************************************)
(* C3.  In the iteration that receives a Ping frame the server passes       *)
(* exactly one Pong frame to send, first of all, whose payload is the       *)
(* Ping's payload, and fragmented_opcode and fragmented_message are after   *)
(* the iteration what they were before it, a fragmentation being in         *)
(* progress or not.                                                         *)
(***************************************************************************)
C3_Step(c) ==
    (/\ pc[c] = "frames"
     /\ Len(rcvd'[c]) = Len(rcvd[c]) + 1
     /\ Last(rcvd'[c]).opcode = 9) =>
        LET ping == Last(rcvd'[c])
            new == SubSeq(out'[c], Len(out[c]) + 1, Len(out'[c]))
        IN  /\ Len(new) >= 1
            /\ new[1].bytes = <<138, Len(ping.payload)>> \o ping.payload
            /\ \A n \in 2..Len(new) : new[n].bytes[1] # 138
            /\ fragmented_opcode'[c] = fragmented_opcode[c]
            /\ fragmented_message'[c] = fragmented_message[c]

C3_PingPong == [][\A c \in Conns : C3_Step(c)]_vars

\* a Ping with payload "A" was answered in the middle of a fragmentation
C3_Witness ==
    \E c \in Conns :
        /\ Len(rcvd[c]) = 2
        /\ rcvd[c][1].opcode = 2 /\ ~rcvd[c][1].fin
        /\ rcvd[c][2].opcode = 9 /\ rcvd[c][2].payload = <<65>>
        /\ Sent(c, 2) = <<<<138, 1, 65>>>>
        /\ fragmented_opcode[c] = 2
        /\ fragmented_message[c] = rcvd[c][1].payload
        /\ pc[c] = "frames"

(***************************************************************************)
(* C9.  A frame whose opcode is none of 0x0, 0x1, 0x2, 0x8, 0x9, 0xA makes  *)
(* the server send a Close frame with code 1002 and reason "Protocol error" *)
(* and nothing else, hand nothing to handle_complete_message and end the    *)
(* loop, a fragmentation sequence being open or not.                        *)
(***************************************************************************)
C9_UnknownOpcode ==
    \A c \in Conns : \A k \in 1..Len(rcvd[c]) :
        rcvd[c][k].opcode \notin {0, 1, 2, 8, 9, 10} =>
            /\ Sent(c, k) = <<Close1002>>
            /\ DeliveredAt(c, k) = <<>>
            /\ EndedAt(c, k)

\* a frame with opcode 0xB arrived while a fragmentation sequence was open
C9_Witness ==
    \E c \in Conns :
        /\ Len(rcvd[c]) = 2
        /\ rcvd[c][1].opcode = 1 /\ ~rcvd[c][1].fin
        /\ rcvd[c][2].opcode = 11
        /\ fragmented_opcode[c] = 1
        /\ Sent(c, 2) = <<Close1002>>
        /\ pc[c] = "closed"

(***************************************************************************)
(* C4.  A Close frame received on an open connection.                      *)
(***************************************************************************)
\* the Close frame, on the wire, that carries the status code and the
\* reason of a received Close payload p: p itself, and code 1000 with no
\* reason when p is shorter than two bytes
CloseEcho(p) == IF Len(p) >= 2 THEN <<136, Len(p)>> \o p ELSE <<136, 2, 3, 232>>

\* the frames that iteration k of c's loop passed to a send that returned
Written(c, k) == SelectSeq(out[c], LAMBDA e : e.at = k /\ e.ok)

\* no send once the socket is closed, and nothing read once the loop ended
C4_Order(c) ==
    /\ pc[c] = "closed" => out'[c] = out[c]
    /\ pc[c] \in {"finally", "closed"} => (rcvd'[c] = rcvd[c] /\ reads'[c] = reads[c])

\* C4 as claimed: the first frame the server passes to send for a received
\* Close frame is a Close frame with the code and the reason received (1000
\* and none for a payload under two bytes), at most one frame is written,
\* the loop ends with the Close frame (no later frame is read) and the
\* socket is closed only after the reply was sent.
C4_CloseEchoed ==
    /\ [](\A c \in Conns : \A k \in 1..Len(rcvd[c]) :
            rcvd[c][k].opcode = 8 =>
                /\ Sent(c, k) # <<>>
                /\ Sent(c, k)[1] = CloseEcho(rcvd[c][k].payload)
                /\ Len(Written(c, k)) <= 1
                /\ EndedAt(c, k))
    /\ [][\A c \in Conns : C4_Order(c)]_vars

\* C4 amended: as claimed when the bytes after the status code are UTF-8;
\* when they are not, the frame the server passes to send is a Close frame
\* with code 1002 and reason "Protocol error".
C4_CloseEchoedIfText ==
    /\ [](\A c \in Conns : \A k \in 1..Len(rcvd[c]) :
            rcvd[c][k].opcode = 8 =>
                /\ Sent(c, k) # <<>>
                /\ Sent(c, k)[1] =
                       (IF utf8_valid(Drop(rcvd[c][k].payload, 2))
                        THEN CloseEcho(rcvd[c][k].payload) ELSE Close1002)
                /\ Len(Written(c, k)) <= 1
                /\ EndedAt(c, k))
    /\ [][\A c \in Conns : C4_Order(c)]_vars

\* a Close frame with code 1000 and reason "A" was answered in kind while a
\* fragmentation was in progress, and the socket is closed
C4_Witness ==
    \E c \in Conns :
        /\ Len(rcvd[c]) = 2
        /\ rcvd[c][1].opcode = 1 /\ ~rcvd[c][1].fin
        /\ rcvd[c][2].opcode = 8 /\ rcvd[c][2].payload = <<3, 232, 65>>
        /\ Sent(c, 2) = <<<<136, 3, 3, 232, 65>>>>
        /\ Len(Written(c, 2)) = 1
        /\ pc[c] = "closed"

(***************************************************************************)
(* C5.  Every frame that receive_frame returns has a payload of exactly    *)
(* the declared payload_length bytes (a read that comes back short is an    *)
(* error and returns no frame), so that no message is built from a short    *)
(* payload.                                                                 *)
(***************************************************************************)
C5_ExactPayload ==
    \A c \in Conns : \A k \in 1..Len(rcvd[c]) :
        Len(rcvd[c][k].payload) = rcvd[c][k].payload_length

(***************************************************************************)
(* Reading a handshake.                                                    *)
(***************************************************************************)
\* the thread of c is past lines 43-58 of its handshake
HandshakeOver(c) == pc[c] \notin {"idle", "hs_recv"}

\* the handshake of c raised: no response was built, none sent, the frame
\* loop was not entered, and only the socket's close is left
Rejected(c) ==
    /\ response[c] = ""
    /\ out[c] = <<>>
    /\ reads[c] = 0 /\ rcvd[c] = <<>>
    /\ pc[c] \in {"finally", "closed"}

\* the handshake of c builds a 101 response, and once it is past line 70
\* that response is what it passed to send
Accepted(c) ==
    /\ find(response[c], "HTTP/1.1 101 Switching Protocols\r\n") = 1
    /\ pc[c] \in {"frames", "finally", "closed"} =>
           (out[c] # <<>> /\ out[c][1].at = 0 /\ out[c][1].text = response[c])

HasKey(req) == Contains(req.text, "Sec-WebSocket-Key: ")

\* <<>> if text has no such header, else <<its value>>
HeaderValue(text, header) ==
    LET m == re_search(header, text)
    IN  IF m = <<>> THEN <<>> ELSE <<strip(m[1])>>

(***************************************************************************)
(* C6.  No mutable state is shared between connections: whatever the       *)
(* interleaving of the handshakes, the Sec-WebSocket-Extensions list and    *)
(* the Sec-WebSocket-Protocol value in the 101 response of a connection are *)
(* those of its own request, and the extensions and subprotocols a          *)
(* connection negotiated stay what they were when other connections shake   *)
(* hands.                                                                   *)
(***************************************************************************)
C6_OwnNegotiation ==
    \A c \in Conns :
        (pc[c] \in {"frames", "finally", "closed"} /\ out[c] # <<>>) =>
            LET req == request[c].text
                resp == out[c][1].text
                ext == HeaderValue(req, ExtHeader)
                sub == HeaderValue(req, SubHeader)
            IN  /\ HeaderValue(resp, ExtHeader) =
                       (IF ext = <<>> THEN <<>> ELSE <<join(", ", split_list(ext[1]))>>)
                /\ HeaderValue(resp, SubHeader) =
                       (IF sub = <<>> THEN <<>> ELSE <<split_list(sub[1])[1]>>)
                /\ ext # <<>> => extensions = split_list(ext[1])
                /\ sub # <<>> => subprotocols = split_list(sub[1])

(***************************************************************************)
(* C7.  When the handshake fails, the request being no WebSocket upgrade    *)
(* (or no text at all) or having no Sec-WebSocket-Key, the server passes    *)
(* nothing to send on that connection (no 101 response, no frame, no        *)
(* Close), does not enter the frame loop, and goes on to close the socket.  *)
(***************************************************************************)
C7_FailedHandshakeSilent ==
    \A c \in Conns :
        (/\ HandshakeOver(c)
         /\ \/ ~request[c].decodes
            \/ ~Contains(request[c].text, "Upgrade: websocket")
            \/ ~Contains(request[c].text, "Connection: Upgrade")
            \/ ~HasKey(request[c])) => Rejected(c)

\* an upgrade request without a key was closed without a byte
C7_Witness ==
    \E c \in Conns :
        /\ is_upgrade(request[c].text) /\ ~HasKey(request[c])
        /\ pc[c] = "closed" /\ out[c] = <<>>

(***************************************************************************)
(* C10.  The Upgrade and Connection headers of the request.                 *)
(***************************************************************************)
\* C10 as claimed: a request with a key is accepted and answered with a 101
\* response when it holds "Upgrade: websocket" and "Connection: Upgrade" in
\* any letter case, and rejected when it lacks either.
C10_AnyCase ==
    \A c \in Conns :
        (HandshakeOver(c) /\ request[c].decodes /\ HasKey(request[c])) =>
            IF /\ Contains(lower(request[c].text), "upgrade: websocket")
               /\ Contains(lower(request[c].text), "connection: upgrade")
            THEN Accepted(c) ELSE Rejected(c)

\* C10 amended: the two headers are matched in the exact letter case; a
\* request with a key is accepted and answered with a 101 response when it
\* holds "Upgrade: websocket" and "Connection: Upgrade" as written, and is
\* rejected when it lacks either or has either in another letter case.
C10_ExactCase ==
    \A c \in Conns :
        (HandshakeOver(c) /\ request[c].decodes /\ HasKey(request[c])) =>
            IF /\ Contains(request[c].text, "Upgrade: websocket")
               /\ Contains(request[c].text, "Connection: Upgrade")
            THEN Accepted(c) ELSE Rejected(c)

\* a request that has its Connection line in another letter case, and is
\* an accepted request but for that, was rejected and its socket closed
C10_Witness ==
    \E c \in Conns, good \in GoodRequests :
        /\ Contains(request[c].text, "Connection: upgrade")
        /\ lower(request[c].text) = lower(good.text)
        /\ Rejected(c) /\ pc[c] = "closed"

(***************************************************************************)
(* C8.  Encoding a frame and decoding the bytes gives the frame back: for   *)
(* every fin, opcode and payload, receive_frame on the bytes send_frame     *)
(* makes of them returns that fin, that opcode and that payload.            *)
(***************************************************************************)
C8_RoundTrip ==
    codec.pc = "done" =>
        /\ codec.frame.kind = "frame"
        /\ codec.frame.frame.fin = codec.fin
        /\ codec.frame.frame.opcode = codec.opcode
        /\ codec.frame.frame.payload = codec.payload

(***************************************************************************)
(* C11.  Every frame the server passes to send in its frame loop (the echo  *)
(* of a Text or Binary message, a Pong, the echo of a Close, a 1002 Close)  *)
(* has the mask bit of its second byte clear, and after its length field    *)
(* come the bytes of its payload as they are, and nothing else: no masking  *)
(* key, no masked bytes.                                                    *)
(***************************************************************************)
\* the bytes a frame on the wire has before its payload, were it unmasked
HeaderLen(b) == IF b[2] % 128 <= 125 THEN 2 ELSE IF b[2] % 128 = 126 THEN 4 ELSE 10

\* the payloads the server has to send in iteration k: of a message it
\* delivered, of the frame it received (Ping, Close), of a Close frame with
\* code 1000 or with code 1002
PlainPayloads(c, k) ==
    {DeliveredAt(c, k)[n].payload : n \in 1..Len(DeliveredAt(c, k))}
        \cup (IF k <= Len(rcvd[c]) THEN {rcvd[c][k].payload} ELSE {})
        \cup {<<3, 232>>, <<3, 234>> \o ProtocolErrorReason}

C11_Unmasked ==
    \A c \in Conns : \A n \in 1..Len(out[c]) :
        out[c][n].at >= 1 =>
            LET b == out[c][n].bytes
            IN  /\ Len(b) >= 2
                /\ b[2] < 128
                /\ Drop(b, HeaderLen(b)) \in PlainPayloads(c, out[c][n].at)

\* one connection was sent a Text echo, a Pong, a Binary echo and the echo
\* of its Close
C11_Witness ==
    \E c \in Conns :
        /\ Len(out[c]) = 5
        /\ \A n \in 1..5 : out[c][n].ok
        /\ {out[c][n].bytes[1] : n \in 2..5} = {129, 130, 138, 136}
        /\ pc[c] = "closed"

(***************************************************************************)
(* C12.  In a handshake that succeeds, the 101 response has a               *)
(* Sec-WebSocket-Protocol line naming the first subprotocol the request     *)
(* offers, trimmed, and no other, when the request has that header, and a   *)
(* Sec-WebSocket-Extensions line with all the extensions the request        *)
(* offers, in their order, when the request has that header; a header the   *)
(* request does not have is not in the response.                            *)
(***************************************************************************)
\* the response has one line "header value", or no line of that header when
\* value is <<>>
HasLine(resp, header, value) ==
    IF value = <<>> THEN ~Contains(resp, header)
    ELSE /\ Contains(resp, "\r\n" \o header \o value[1] \o "\r\n")
         /\ ~Contains(Drop(resp, find(resp, header)), header)

C12_Negotiated ==
    \A c \in Conns :
        (pc[c] \in {"frames", "finally", "closed"} /\ out[c] # <<>> /\ out[c][1].ok) =>
            LET ext == HeaderValue(request[c].text, ExtHeader)
                sub == HeaderValue(request[c].text, SubHeader)
            IN  /\ find(out[c][1].text, "HTTP/1.1 101 ") = 1
                /\ HasLine(out[c][1].text, SubHeader,
                           IF sub = <<>> THEN <<>> ELSE <<strip(split(sub[1], ",")[1])>>)
                /\ HasLine(out[c][1].text, ExtHeader,
                           IF ext = <<>> THEN <<>> ELSE <<join(", ", split_list(ext[1]))>>)

(***************************************************************************)
(* C13.  A complete Text message (one frame, or reassembled) whose payload  *)
(* is not valid UTF-8 is not echoed: the server sends a Close frame with    *)
(* code 1002 and nothing else, and the loop ends.  When the payload is      *)
(* valid UTF-8 the server sends one Text frame with the same payload, and   *)
(* for a complete Binary message one Binary frame with the same bytes: that *)
(* frame is the first the iteration passes to send, and the only one unless *)
(* the socket refuses it.                                                   *)
(***************************************************************************)
\* the calls of send of iteration k
Calls(c, k) == SelectSeq(out[c], LAMBDA e : e.at = k)

\* iteration k echoed payload in one frame with first byte b1
EchoedOnce(c, k, b1, payload) ==
    /\ Sent(c, k) # <<>>
    /\ Sent(c, k)[1] = <<b1, Len(payload)>> \o payload
    /\ IF Calls(c, k)[1].ok THEN Len(Sent(c, k)) = 1
       ELSE Sent(c, k) = <<Sent(c, k)[1], Close1002>> /\ EndedAt(c, k)

C13_EchoOrClose ==
    \A c \in Conns : \A n \in 1..Len(delivered[c]) :
        LET d == delivered[c][n]
        IN  IF d.opcode = 1 /\ ~utf8_valid(d.payload)
            THEN Sent(c, d.at) = <<Close1002>> /\ EndedAt(c, d.at)
            ELSE EchoedOnce(c, d.at, 128 + d.opcode, d.payload)

\* a Text message reassembled to two bytes that are no UTF-8 was answered
\* with a 1002 Close, after one in a single frame was echoed
C13_Witness ==
    \E c \in Conns :
        /\ Len(rcvd[c]) = 3
        /\ delivered[c] = <<[at |-> 1, opcode |-> 1, payload |-> <<65>>],
                            [at |-> 3, opcode |-> 1, payload |-> <<169, 195>>]>>
        /\ Sent(c, 1) = <<<<129, 1, 65>>>>
        /\ Sent(c, 3) = <<Close1002>>
        /\ pc[c] = "closed"

(***************************************************************************)
(* C14.  A Continuation frame, fin set or clear, that arrives when no       *)
(* fragmentation sequence is open (first on the connection, after a message *)
(* in one frame, after a sequence that a Continuation with fin set has      *)
(* ended) makes the server send a Close frame with code 1002 and nothing    *)
(* else, hand nothing to handle_complete_message, and end the loop.         *)
(***************************************************************************)
C14_StrayContinuation ==
    \A c \in Conns : \A k \in 1..Len(rcvd[c]) :
        (rcvd[c][k].opcode = 0 /\ ~OpenAt(rcvd[c], k)) =>
            /\ Sent(c, k) = <<Close1002>>
            /\ DeliveredAt(c, k) = <<>>
            /\ EndedAt(c, k)

\* a Continuation frame with fin set arrived after a fragmented message was
\* completed and echoed
C14_Witness ==
    \E c \in Conns :
        /\ Len(rcvd[c]) = 3
        /\ FragmentSequence(rcvd[c], 1, 2)
        /\ Len(Written(c, 2)) = 1
        /\ rcvd[c][3].opcode = 0 /\ rcvd[c][3].fin
        /\ Sent(c, 3) = <<Close1002>>
        /\ DeliveredAt(c, 3) = <<>>
        /\ pc[c] = "closed"

(***************************************************************************)
(* C15.  Once the peer of a connection has closed the transport, the frame  *)
(* loop of the connection ends and handle_client closes the socket, in      *)
(* whatever state of the loop the close finds the connection (no            *)
(* fragmentation pending, one pending, a frame read in part), also when     *)
(* the socket refuses the 1002 Close.                                       *)
(***************************************************************************)
C15_PeerCloseEndsLoop ==
    \A c \in Conns : (peer[c] # "open") ~> (pc[c] = "closed")

\* the peer closed in the middle of a frame while a fragmentation was
\* pending, the 1002 Close was refused, and the socket is closed
C15_Witness ==
    \E c \in Conns :
        /\ peer[c] = "gone"
        /\ fragmented_opcode[c] = 1
        /\ out[c] # <<>> /\ Last(out[c]).bytes = Close1002 /\ ~Last(out[c]).ok
        /\ reads[c] > Len(rcvd[c])
        /\ pc[c] = "closed"

(***************************************************************************)
(* C16.  An error raised while a connection is served (a handshake that     *)
(* fails, a frame or protocol error, a read that fails, a write that fails, *)
(* that of the 1002 Close too) ends the thread of that connection only:     *)
(* the step leaves every other connection as it was (where its thread is,   *)
(* its handshake, its pending fragmentation, what it has read, delivered    *)
(* and sent) and leaves the server object as it was; a connection not yet   *)
(* accepted can still be accepted; and the thread that met the error has    *)
(* one step left, the close of its socket.                                  *)
(***************************************************************************)
\* all that belongs to connection d
Own(d) ==
    <<pc[d], request[d], data[d], response[d], wfail[d], peer[d], fragmented_message[d],
      fragmented_opcode[d], reads[d], rcvd[d], delivered[d], out[d]>>

\* this step, the thread of c leaves its handshake or its loop by an
\* exception (no Close frame is received in SharedSpec)
ErrorStep(c) == pc[c] \notin {"finally", "closed"} /\ pc'[c] = "finally"

C16_Step ==
    \A c \in Conns :
        /\ ErrorStep(c) =>
               /\ \A d \in Conns \ {c} : Own(d)' = Own(d)
               /\ extensions' = extensions /\ subprotocols' = subprotocols
        /\ pc[c] = "finally" => pc'[c] \in {"finally", "closed"}

C16_Confined ==
    /\ [](\A c \in Conns : /\ pc[c] = "finally" => ENABLED client_close(c)
                           /\ pc[c] = "idle" => ENABLED accept(c))
    /\ [][C16_Step]_vars

\* one connection was closed after its 1002 Close was refused; another has
\* had all its frames answered, and its loop goes on
C16_Witness ==
    \E c, d \in Conns :
        /\ pc[c] = "closed" /\ out[c] # <<>> /\ Last(out[c]).bytes = Close1002
        /\ ~Last(out[c]).ok
        /\ pc[d] = "frames" /\ Len(rcvd[d]) = MaxFrames
        /\ \A n \in 1..Len(out[d]) : out[d][n].ok

(***************************************************************************)
(* C17.  On a connection the frames are processed in the order received:    *)
(* the frames the server sends are in the order of the received frames      *)
(* that caused them (a Pong answers the Ping of its iteration, an echo the   *)
(* message its iteration completed), so the Pong for a Ping received in the *)
(* middle of a fragmentation sequence comes before the echo of the          *)
(* reassembled message; and the answer to a frame is sent in the iteration  *)
(* that read it, before the next frame is read.                             *)
(***************************************************************************)
\* the calls of send are in the order of the iterations, and each Pong and
\* each echo is the answer to the frame of its iteration
C17_Caused(c) ==
    \A n \in 1..Len(out[c]) :
        LET e == out[c][n]
        IN  /\ \A m \in 1..(n - 1) : out[c][m].at <= e.at
            /\ e.at <= reads[c]
            /\ (e.at >= 1 /\ e.bytes[1] = 138) =>
                   /\ e.at <= Len(rcvd[c]) /\ rcvd[c][e.at].opcode = 9
                   /\ e.bytes = <<138, Len(rcvd[c][e.at].payload)>> \o rcvd[c][e.at].payload
            /\ (e.at >= 1 /\ e.bytes[1] \in {129, 130}) =>
                   /\ e.at <= Len(rcvd[c])
                   /\ rcvd[c][e.at].opcode \in {0, 1, 2} /\ rcvd[c][e.at].fin
                   /\ DeliveredAt(c, e.at) # <<>>
                   /\ e.bytes = <<e.bytes[1], Len(DeliveredAt(c, e.at)[1].payload)>>
                                    \o DeliveredAt(c, e.at)[1].payload

\* a step that sends a frame is the step that reads the frame answered
C17_Step(c) ==
    out'[c] # out[c] =>
        /\ SubSeq(out'[c], 1, Len(out[c])) = out[c]
        /\ pc[c] = "frames" =>
               /\ reads'[c] = reads[c] + 1
               /\ \A n \in (Len(out[c]) + 1)..Len(out'[c]) : out'[c][n].at = reads'[c]

C17_ReceiptOrder ==
    /\ [](\A c \in Conns : C17_Caused(c))
    /\ [][\A c \in Conns : C17_Step(c)]_vars

\* a Ping arrived between the two fragments of a Text message: the Pong was
\* sent, then the echo
C17_Witness ==
    \E c \in Conns :
        /\ Len(rcvd[c]) = 3
        /\ rcvd[c][1].opcode = 1 /\ ~rcvd[c][1].fin
        /\ rcvd[c][2].opcode = 9
        /\ rcvd[c][3].opcode = 0 /\ rcvd[c][3].fin
        /\ Len(out[c]) = 3
        /\ out[c][2].at = 2 /\ out[c][2].bytes = <<138, 1, 65>>
        /\ out[c][3].at = 3 /\ out[c][3].bytes[1] = 129
        /\ pc[c] = "frames"

(***************************************************************************)
(* C18.  send_frame writes the length n of the payload after the first      *)
(* byte: n itself in one byte when n <= 125; 126 and n in two bytes, high   *)
(* byte first, when 126 <= n <= 65535; 127 and n in eight bytes, high byte  *)
(* first, when n >= 65536; then the n bytes of the payload and nothing      *)
(* more.  receive_frame reads each of the three forms back as n.            *)
(***************************************************************************)
\* byte i (1 the highest) of v written in k bytes
RECURSIVE ByteOf(_, _, _)
ByteOf(v, k, i) == IF i = k THEN v % 256 ELSE ByteOf(v \div 256, k - 1, i)

C18_LengthForms ==
    LET n == Len(codec.payload)
        w == codec.wire
    IN  /\ codec.pc \in {"decode", "done"} =>
            /\ n <= 125 => (w[2] = n /\ Len(w) = 2 + n)
            /\ (126 <= n /\ n <= 65535) =>
                   /\ w[2] = 126 /\ Len(w) = 4 + n
                   /\ \A i \in 1..2 : w[2 + i] = ByteOf(n, 2, i)
            /\ n >= 65536 =>
                   /\ w[2] = 127 /\ Len(w) = 10 + n
                   /\ \A i \in 1..8 : w[2 + i] = ByteOf(n, 8, i)
            /\ SubSeq(w, Len(w) - n + 1, Len(w)) = codec.payload
        /\ codec.pc = "done" =>
            /\ codec.frame.kind = "frame"
            /\ codec.frame.frame.payload_length = n
            /\ Len(codec.frame.frame.payload) = n

\* a payload of 65536 bytes went out in the eight-byte form and came back
C18_Witness ==
    /\ codec.pc = "done"
    /\ Len(codec.payload) = 65536
    /\ SubSeq(codec.wire, 2, 10) = <<127, 0, 0, 0, 0, 0, 1, 0, 0>>
    /\ codec.frame.frame.payload_length = 65536

(***************************************************************************)
(* C19.  The iteration that receives a Pong frame sends nothing, hands      *)
(* nothing to handle_complete_message, leaves fragmented_opcode and         *)
(* fragmented_message as they were, and leaves the loop running: the        *)
(* connection stays open and the next frame is read.                        *)
(***************************************************************************)
C19_Step(c) ==
    (/\ pc[c] = "frames"
     /\ Len(rcvd'[c]) = Len(rcvd[c]) + 1
     /\ Last(rcvd'[c]).opcode = 10) =>
        /\ out'[c] = out[c]
        /\ delivered'[c] = delivered[c]
        /\ fragmented_opcode'[c] = fragmented_opcode[c]
        /\ fragmented_message'[c] = fragmented_message[c]
        /\ pc'[c] = "frames"

C19_PongIgnored == [][\A c \in Conns : C19_Step(c)]_vars

\* a Pong arrived between the two fragments of a Binary message; nothing
\* was sent for it, and the message was completed and echoed after it
C19_Witness ==
    \E c \in Conns :
        /\ Len(rcvd[c]) = 3
        /\ rcvd[c][1].opcode = 2 /\ ~rcvd[c][1].fin
        /\ rcvd[c][2].opcode = 10
        /\ rcvd[c][3].opcode = 0 /\ rcvd[c][3].fin
        /\ Sent(c, 1) = <<>> /\ Sent(c, 2) = <<>>
        /\ Sent(c, 3) = <<<<130, 2>> \o rcvd[c][1].payload \o rcvd[c][3].payload>>
        /\ pc[c] = "frames"

(***************************************************************************)
(* C20.  On every connection, whatever frames arrive and whenever the       *)
(* transport fails, at most one Close frame is written, and it is the last  *)
(* thing the server passes to send: once a Close frame has been written     *)
(* (the echo of a received Close, or a 1002 Close) the loop has ended, no   *)
(* frame is read or handed to handle_complete_message after it, and nothing *)
(* more is sent.                                                            *)
(***************************************************************************)
\* call n of send on c wrote a Close frame
WroteClose(c, n) == out[c][n].at >= 1 /\ out[c][n].ok /\ out[c][n].bytes[1] = 136

C20_OneClose ==
    \A c \in Conns : \A n \in 1..Len(out[c]) :
        WroteClose(c, n) =>
            /\ n = Len(out[c])
            /\ \A m \in 1..(n - 1) : ~WroteClose(c, m)
            /\ reads[c] = out[c][n].at
            /\ \A m \in 1..Len(delivered[c]) : delivered[c][m].at <= out[c][n].at
            /\ pc[c] \in {"finally", "closed"}

\* after two messages were echoed a frame with an unknown opcode arrived;
\* the 1002 Close was written, last of all, and the socket is closed
C20_Witness ==
    \E c \in Conns :
        /\ Len(out[c]) = 4
        /\ \A n \in 1..4 : out[c][n].ok
        /\ out[c][2].bytes[1] = 129 /\ out[c][3].bytes[1] = 130
        /\ out[c][4].bytes = Close1002
        /\ reads[c] = 3
        /\ pc[c] = "closed"

====
